---- MODULE Spec2Model ----
(***************************************************************************)
(* A model of github.com/common-fate/ops.                                  *)
(*                                                                         *)
(*   - the tunnel: Tunnel.DialAndServe drives dialAndServe/register under  *)
(*     wait.ExponentialBackoffWithContext(ctx, DefaultBackoff, ...)        *)
(*     (specification Spec);                                               *)
(*   - the registry: Registry.Register and Registry.Build                  *)
(*     (specification RegistrySpec).                                       *)
(***************************************************************************)
EXTENDS Integers, Sequences, FiniteSets, TLC

VARIABLES
    \* ---- tunnel ----
    ctx,            \* the ambient context: "active", "canceled", "deadline"
    pc,             \* where the task that called DialAndServe is
    steps,          \* backoff.Steps left in ExponentialBackoffWithContext
    lastErr,        \* DialAndServe's local lastErr
    ret,            \* what DialAndServe returned: [err, via, ctx]
    nAttempts,      \* calls of dialAndServe so far
    conn,           \* conn[i]: the connection dialled by attempt i
    att,            \* the handshake of the attempt in progress
    hasCallback,    \* Tunnel.OnConnectionReady != nil
    obs,            \* what an observer of the attempts has seen so far
    \* ---- registry ----
    services,       \* Registry.services
    handler,        \* what Build returned
    logged,         \* slog.Error records written by Build
    out,            \* the last Call or ServeHTTP on the Handler, and its outcome
    \* ---- TLS configuration ----
    DefaultTLSConfig,   \* the package's DefaultTLSConfig (one shared *tls.Config)
    TLSConfig,          \* TLSConfig[t]: the field TLSConfig of the Tunnel t
    tlsCall             \* the last call of getTLSConfig, and what it returned

tunnelVars == <<ctx, pc, steps, lastErr, ret, nAttempts, conn, att, hasCallback, obs>>
registryVars == <<services, handler, logged, out>>
tlsVars == <<DefaultTLSConfig, TLSConfig, tlsCall>>
vars == <<ctx, pc, steps, lastErr, ret, nAttempts, conn, att, hasCallback, obs,
          services, handler, logged, out, DefaultTLSConfig, TLSConfig, tlsCall>>

-----------------------------------------------------------------------------
(* Bounds of the model.                                                    *)

\* requests the serving loop dispatches on one connection
MaxRequests == 1

\* calls of Registry.Register
MaxServices == 2

-----------------------------------------------------------------------------
(* protocol.ResponseCode and its generated String method.                  *)

CodeOK == 0
CodeBadRequest == 1
CodeNotFound == 2
CodeUnauthorized == 3
CodeServerError == 4
ResponseCode_name == "CodeOKCodeBadRequestCodeNotFoundCodeUnauthorizedCodeServerError"
ResponseCode_index == <<0, 6, 20, 32, 48, 63>>

\* the first ordinal outside the enumeration, as a peer may send it
CodeUnknown == Len(ResponseCode_index) - 1

\* ResponseCode is unsigned (the generated code has no i < 0 test); the Go
\* index table is 0-based, the tuple above 1-based.
ResponseCodeString(i) ==
    IF i >= Len(ResponseCode_index) - 1
    THEN "ResponseCode(" \o ToString(i) \o ")"
    ELSE SubSeq(ResponseCode_name, ResponseCode_index[i + 1] + 1, ResponseCode_index[i + 2])

\* the codes a decoded RegisterListenerResponse carries in the model
Codes == {CodeOK, CodeUnauthorized, CodeUnknown}

-----------------------------------------------------------------------------
(* Errors.  kind is the wrapping message, cause what errors.Is unwraps to.  *)

Err(k, c) == [kind |-> k, cause |-> c]
NoErr == Err("nil", "nil")

\* errors.Is(err, context.Canceled)
IsCanceled(e) == e.cause = "Canceled"

\* wait.ErrWaitTimeout, and ctx.Err()
ErrWaitTimeout == Err("wait", "Timeout")
CtxErr(c) == Err("ctx", IF c = "canceled" THEN "Canceled" ELSE "DeadlineExceeded")

\* wait.Interrupted(err)
Interrupted(e) == e.cause \in {"Timeout", "Canceled", "DeadlineExceeded"}

\* the causes of failures that are not the context's
NetCauses == {"E1", "E2"}

-----------------------------------------------------------------------------
(* DefaultBackoff.Steps                                                    *)

Steps == 5

Attempts == 1..Steps

\* streams: the streams the attempt has opened; req: the attempt that made the
\* RegisterListenerRequest at hand (0: none yet); authReq: the attempt whose
\* request Authenticate was given; authErr: Authenticate returned an error
FreshAttempt == [authCalls |-> 0, encoded |-> FALSE, encClosed |-> FALSE,
                 decoded |-> FALSE, code |-> CodeOK, cbCalls |-> 0,
                 serving |-> FALSE, dispatched |-> 0,
                 streams |-> 0, req |-> 0, authReq |-> 0, authErr |-> FALSE]

\* uniform: every failed attempt so far has returned the same error (lastErr);
\* lastNonCancel: the last error of an attempt that context.Canceled does not match
FreshObs == [uniform |-> TRUE, lastNonCancel |-> NoErr]

NotReturned == [err |-> NoErr, via |-> "none", ctx |-> "active"]

TunnelInit ==
    /\ ctx = "active"
    /\ pc = "loop"
    /\ steps = Steps
    /\ lastErr = NoErr
    /\ ret = NotReturned
    /\ nAttempts = 0
    /\ conn = [i \in Attempts |-> "none"]
    /\ att = FreshAttempt
    /\ hasCallback \in BOOLEAN
    /\ obs = FreshObs

-----------------------------------------------------------------------------
(* Tunnel.DialAndServe: the function passed to ExponentialBackoffWithContext, *)
(* and what DialAndServe makes of the error the backoff loop returns.        *)

\* the closure: e is what dialAndServe returned, le the lastErr before it
ConditionFunc(e, le) ==
    IF e # NoErr
    THEN [done |-> FALSE, err |-> NoErr, lastErr |-> e]
    ELSE [done |-> TRUE, err |-> NoErr, lastErr |-> le]

\* FinalErr without the replacement by lastErr
FinalErr_AsReturned(e, le) == e

\* FinalErr without the test for context.Canceled
FinalErr_AnyInterrupt(e, le) ==
    IF Interrupted(e) THEN le ELSE e

\* e is what ExponentialBackoffWithContext returned, le the lastErr then
FinalErr(e, le) ==
    IF ~IsCanceled(e) /\ Interrupted(e) THEN le ELSE e

\* DialAndServe returns
Return(e, how, le) ==
    /\ pc' = "done"
    /\ ret' = [err |-> FinalErr(e, le), via |-> how, ctx |-> ctx]

\* what an observer notes when an attempt has failed with e
Observe(e) ==
    [obs EXCEPT !.uniform = (nAttempts = 1) \/ (@ /\ e = lastErr),
                !.lastNonCancel = IF IsCanceled(e) THEN @ ELSE e]

\* EndAttempt with the budget restored when the attempt that failed had
\* registered and was serving
EndAttempt_ResetAfterServe(e) ==
    LET c == ConditionFunc(e, lastErr) IN
    /\ lastErr' = c.lastErr
    /\ obs' = IF e # NoErr THEN Observe(e) ELSE obs
    /\ IF c.err # NoErr \/ c.done
       THEN Return(c.err, IF c.done THEN "success" ELSE "condition", c.lastErr)
            /\ steps' = steps
       ELSE IF att.serving
       THEN steps' = Steps /\ pc' = "wait" /\ ret' = ret
       ELSE IF steps = 1
       THEN Return(ErrWaitTimeout, "exhausted", c.lastErr) /\ steps' = steps
       ELSE steps' = steps - 1 /\ pc' = "wait" /\ ret' = ret

\* dialAndServe has returned e: the closure runs, then the body of the backoff
\* loop after the condition (return on done or error, break when Steps is 1,
\* otherwise backoff.Step() and the wait).
EndAttempt(e) ==
    LET c == ConditionFunc(e, lastErr) IN
    /\ lastErr' = c.lastErr
    /\ obs' = IF e # NoErr THEN Observe(e) ELSE obs
    /\ IF c.err # NoErr \/ c.done
       THEN Return(c.err, IF c.done THEN "success" ELSE "condition", c.lastErr)
            /\ steps' = steps
       ELSE IF steps = 1
       THEN Return(ErrWaitTimeout, "exhausted", c.lastErr) /\ steps' = steps
       ELSE steps' = steps - 1 /\ pc' = "wait" /\ ret' = ret

\* the top of the backoff loop: the context is looked at before every attempt
Loop ==
    /\ pc = "loop"
    /\ IF ctx # "active"
       THEN /\ Return(CtxErr(ctx), "ctxLoop", lastErr)
            /\ UNCHANGED <<nAttempts, att>>
       ELSE /\ pc' = "dial"
            /\ nAttempts' = nAttempts + 1
            /\ att' = FreshAttempt
            /\ ret' = ret
    /\ UNCHANGED <<ctx, steps, lastErr, conn, hasCallback, obs>>
    /\ UNCHANGED <<registryVars, tlsVars>>

\* the wait between two attempts: the timer, or the context
Wait ==
    /\ pc = "wait"
    /\ \/ pc' = "loop" /\ ret' = ret
       \/ ctx # "active" /\ Return(CtxErr(ctx), "ctxWait", lastErr)
    /\ UNCHANGED <<ctx, steps, lastErr, nAttempts, conn, att, hasCallback, obs>>
    /\ UNCHANGED <<registryVars, tlsVars>>

-----------------------------------------------------------------------------
(* Tunnel.dialAndServe and Tunnel.register.                                *)

Conn == conn[nAttempts]

\* what quic.DialAddr(ctx, ...) can fail with
DialErrors ==
    {Err("dial", c) : c \in NetCauses}
    \cup (IF ctx = "active" THEN {} ELSE {Err("dial", CtxErr(ctx).cause)})

\* quic.DialAddr (with getTLSConfig before it); on success the goroutine that waits for
\* ctx.Done() is started for the new connection (see Watcher)
Dial ==
    /\ pc = "dial"
    /\ \/ /\ ctx = "active"
          /\ conn' = [conn EXCEPT ![nAttempts] = "open"]
          /\ pc' = "openStream"
          /\ UNCHANGED <<steps, lastErr, ret, obs>>
       \/ /\ \E e \in DialErrors : EndAttempt(e)
          /\ conn' = conn
    /\ UNCHANGED <<ctx, nAttempts, att, hasCallback>>
    /\ UNCHANGED <<registryVars, tlsVars>>

\* conn.OpenStream(), then the encoder and the request of this attempt
OpenStream ==
    /\ pc = "openStream"
    /\ IF Conn = "open"
       THEN /\ att' = [att EXCEPT !.streams = @ + 1, !.req = nAttempts]
            /\ pc' = "auth"
            /\ UNCHANGED <<steps, lastErr, ret, obs>>
       ELSE /\ att' = att
            /\ EndAttempt(Err("stream", "E1"))
    /\ UNCHANGED <<ctx, nAttempts, conn, hasCallback>>
    /\ UNCHANGED <<registryVars, tlsVars>>

\* what an Authenticator can answer: nil, an error of its own, or an error
\* that wraps context.Canceled (the stream's context, or one of its own)
AuthResults == {NoErr, Err("auth", "E1"), Err("auth", "Canceled")}

\* Authenticate with the authenticator's error dropped
Authenticate_ErrorIgnored ==
    /\ pc = "auth"
    /\ \E e \in AuthResults :
          /\ att' = [att EXCEPT !.authCalls = @ + 1, !.authReq = att.req,
                                !.authErr = (e # NoErr)]
          /\ pc' = "encode"
          /\ UNCHANGED <<steps, lastErr, ret, obs>>
    /\ UNCHANGED <<ctx, nAttempts, conn, hasCallback>>
    /\ UNCHANGED <<registryVars, tlsVars>>

\* auth.Authenticate(stream.Context(), req), on a request made for this attempt
Authenticate ==
    /\ pc = "auth"
    /\ \E e \in AuthResults :
          IF e = NoErr
          THEN /\ att' = [att EXCEPT !.authCalls = @ + 1, !.authReq = att.req]
               /\ pc' = "encode"
               /\ UNCHANGED <<steps, lastErr, ret, obs>>
          ELSE /\ att' = [att EXCEPT !.authCalls = @ + 1, !.authReq = att.req,
                                     !.authErr = TRUE, !.encClosed = TRUE]
               /\ EndAttempt(e)
    /\ UNCHANGED <<ctx, nAttempts, conn, hasCallback>>
    /\ UNCHANGED <<registryVars, tlsVars>>

\* Encode with the encoder closed as soon as the request is written
Encode_ThenClose ==
    /\ pc = "encode"
    /\ IF Conn = "open"
       THEN /\ att' = [att EXCEPT !.encoded = TRUE, !.encClosed = TRUE]
            /\ pc' = "decode"
            /\ UNCHANGED <<steps, lastErr, ret, obs>>
       ELSE /\ att' = [att EXCEPT !.encClosed = TRUE]
            /\ EndAttempt(Err("encode", "E1"))
    /\ UNCHANGED <<ctx, nAttempts, conn, hasCallback>>
    /\ UNCHANGED <<registryVars, tlsVars>>

\* enc.Encode(req)
Encode ==
    /\ pc = "encode"
    /\ IF Conn = "open"
       THEN /\ att' = [att EXCEPT !.encoded = TRUE]
            /\ pc' = "decode"
            /\ UNCHANGED <<steps, lastErr, ret, obs>>
       ELSE /\ att' = [att EXCEPT !.encClosed = TRUE]
            /\ EndAttempt(Err("encode", "E1"))
    /\ UNCHANGED <<ctx, nAttempts, conn, hasCallback>>
    /\ UNCHANGED <<registryVars, tlsVars>>

\* RegisterDecoded without the call of OnConnectionReady
RegisterDecoded_NoCallback(c) ==
    IF c # CodeOK
    THEN /\ att' = [att EXCEPT !.decoded = TRUE, !.code = c, !.encClosed = TRUE]
         /\ EndAttempt(Err("code", ResponseCodeString(c)))
    ELSE /\ att' = [att EXCEPT !.decoded = TRUE, !.code = c, !.encClosed = TRUE,
                               !.serving = TRUE]
         /\ pc' = "serve"
         /\ UNCHANGED <<steps, lastErr, ret, obs>>

\* RegisterDecoded without the test of resp.Code
RegisterDecoded_AnyCode(c) ==
    IF hasCallback
    THEN /\ att' = [att EXCEPT !.decoded = TRUE, !.code = c]
         /\ pc' = "ready"
         /\ UNCHANGED <<steps, lastErr, ret, obs>>
    ELSE /\ att' = [att EXCEPT !.decoded = TRUE, !.code = c, !.encClosed = TRUE,
                               !.serving = TRUE]
         /\ pc' = "serve"
         /\ UNCHANGED <<steps, lastErr, ret, obs>>

\* register after a response with code c has been decoded
RegisterDecoded(c) ==
    IF c # CodeOK
    THEN /\ att' = [att EXCEPT !.decoded = TRUE, !.code = c, !.encClosed = TRUE]
         /\ EndAttempt(Err("code", ResponseCodeString(c)))
    ELSE IF hasCallback
    THEN /\ att' = [att EXCEPT !.decoded = TRUE, !.code = c]
         /\ pc' = "ready"
         /\ UNCHANGED <<steps, lastErr, ret, obs>>
    ELSE /\ att' = [att EXCEPT !.decoded = TRUE, !.code = c, !.encClosed = TRUE,
                               !.serving = TRUE]
         /\ pc' = "serve"
         /\ UNCHANGED <<steps, lastErr, ret, obs>>

\* dec.Decode() and the test of resp.Code
Decode ==
    /\ pc = "decode"
    /\ \/ Conn = "open" /\ \E c \in Codes : RegisterDecoded(c)
       \/ /\ att' = [att EXCEPT !.encClosed = TRUE]
          /\ EndAttempt(Err("decode", "E1"))
    /\ UNCHANGED <<ctx, nAttempts, conn, hasCallback>>
    /\ UNCHANGED <<registryVars, tlsVars>>

\* s.OnConnectionReady(resp); register returns nil and ServeQUICConn is called
OnConnectionReady ==
    /\ pc = "ready"
    /\ att' = [att EXCEPT !.cbCalls = @ + 1, !.encClosed = TRUE, !.serving = TRUE]
    /\ pc' = "serve"
    /\ UNCHANGED <<ctx, steps, lastErr, ret, nAttempts, conn, hasCallback, obs>>
    /\ UNCHANGED <<registryVars, tlsVars>>

\* the serving loop hands one request to the Handler
ServeRequest ==
    /\ pc = "serve"
    /\ Conn = "open"
    /\ att.dispatched < MaxRequests
    /\ att' = [att EXCEPT !.dispatched = @ + 1]
    /\ UNCHANGED <<ctx, pc, steps, lastErr, ret, nAttempts, conn, hasCallback, obs>>
    /\ UNCHANGED <<registryVars, tlsVars>>

\* ServeQUICConn returns once the connection has ended: nil on a clean close,
\* an error otherwise
ServeReturn ==
    /\ pc = "serve"
    /\ Conn # "open"
    /\ \E e \in {NoErr, Err("serve", "E1")} : EndAttempt(e)
    /\ UNCHANGED <<ctx, nAttempts, conn, att, hasCallback>>
    /\ UNCHANGED <<registryVars, tlsVars>>

\* the goroutine started after a dial: <-ctx.Done(), then
\* conn.CloseWithError(protocol.ApplicationOK, "")
Watcher(i) ==
    /\ ctx # "active"
    /\ conn[i] = "open"
    /\ conn' = [conn EXCEPT ![i] = "closedOK"]
    /\ UNCHANGED <<ctx, pc, steps, lastErr, ret, nAttempts, att, hasCallback, obs>>
    /\ UNCHANGED <<registryVars, tlsVars>>

-----------------------------------------------------------------------------
(* The environment: the caller's context and the relay.                    *)

\* the caller cancels the context
Cancel ==
    /\ ctx = "active"
    /\ ctx' = "canceled"
    /\ UNCHANGED <<pc, steps, lastErr, ret, nAttempts, conn, att, hasCallback, obs>>
    /\ UNCHANGED <<registryVars, tlsVars>>

\* the context's deadline passes
Expire ==
    /\ ctx = "active"
    /\ ctx' = "deadline"
    /\ UNCHANGED <<pc, steps, lastErr, ret, nAttempts, conn, att, hasCallback, obs>>
    /\ UNCHANGED <<registryVars, tlsVars>>

\* the relay (or the network) ends the connection of the attempt in progress
PeerClose ==
    /\ pc \in {"openStream", "auth", "encode", "decode", "ready", "serve"}
    /\ Conn = "open"
    /\ conn' = [conn EXCEPT ![nAttempts] = "closedPeer"]
    /\ UNCHANGED <<ctx, pc, steps, lastErr, ret, nAttempts, att, hasCallback, obs>>
    /\ UNCHANGED <<registryVars, tlsVars>>

TunnelNext ==
    \/ Loop
    \/ Wait
    \/ Dial
    \/ OpenStream
    \/ Authenticate
    \/ Encode
    \/ Decode
    \/ OnConnectionReady
    \/ ServeRequest
    \/ ServeReturn
    \/ \E i \in Attempts : Watcher(i)
    \/ Cancel
    \/ Expire
    \/ PeerClose

-----------------------------------------------------------------------------
(* The registry: the service types that are registered.  example, second   *)
(* and pointerOutput are those of the tests; alias carries a Metadata ID    *)
(* that is the type name of second, and legacy has a method whose first     *)
(* parameter is no context.Context.                                         *)

Types == {"example", "second", "pointerOutput", "alias", "legacy"}

Method(n, r, p) == [name |-> n, recv |-> r, params |-> p]

\* the exported methods of *T, in the order of reflect.Type.Method (by name);
\* params are the parameters after the receiver
TypeMethods(t) ==
    CASE t = "example" ->
           << Method("Bar", "pointer", <<"ctx", "fooInput">>),
              Method("Foo", "value", <<"ctx", "fooInput">>),
              Method("Metadata", "value", <<>>) >>
      [] t = "second" ->
           << Method("Foo", "value", <<"ctx", "fooInput">>) >>
      [] t = "pointerOutput" ->
           << Method("Foo", "pointer", <<"ctx", "fooInput">>),
              Method("Metadata", "value", <<>>) >>
      [] t = "alias" ->
           << Method("Foo", "value", <<"ctx", "fooInput">>),
              Method("Metadata", "value", <<>>) >>
      [] t = "legacy" ->
           << Method("Fail", "value", <<"ctx">>),
              Method("Ping", "value", <<"ctx">>),
              Method("Sum", "value", <<"int", "int">>) >>

\* svc.(ServiceWithMetadata)
HasMetadata(t) == \E i \in 1..Len(TypeMethods(t)) : TypeMethods(t)[i].name = "Metadata"

NoOperationMetadata == [n \in {} |-> ""]

\* what Metadata() returns; the zero ServiceMetadata for a type without it
Metadata(t) ==
    CASE t = "example" ->
           [ID |-> "example", DisplayName |-> "Example",
            Description |-> "My Example service",
            OperationMetadata |-> [n \in {"Foo"} |-> "does foo"]]
      [] t = "pointerOutput" ->
           [ID |-> "pointerOutput", DisplayName |-> "", Description |-> "",
            OperationMetadata |-> NoOperationMetadata]
      [] t = "alias" ->
           [ID |-> "second", DisplayName |-> "Alias", Description |-> "",
            OperationMetadata |-> NoOperationMetadata]
      [] OTHER ->
           [ID |-> "", DisplayName |-> "", Description |-> "",
            OperationMetadata |-> NoOperationMetadata]

\* a registered object: a T (ptr FALSE) or a *T (ptr TRUE)
ServiceObjects == [type : Types, ptr : BOOLEAN]

\* meta.OperationMetadata[name].Description: the zero value for a missing key
OperationDescription(meta, name) ==
    IF name \in DOMAIN meta.OperationMetadata THEN meta.OperationMetadata[name] ELSE ""

-----------------------------------------------------------------------------
(* extractMethods, parseMethod and Registry.Build.                         *)

NoType == "none"

\* the loop of extractMethods over funcType.In(i), i >= 1; In(0) is the
\* receiver, so In(i) is params[i]
RECURSIVE extractLoop(_, _)
extractLoop(params, i) ==
    IF i > Len(params)
    THEN [err |-> FALSE, InputType |-> NoType]
    ELSE IF params[i] # "ctx" /\ i = 1
    THEN [err |-> TRUE, InputType |-> NoType]
    ELSE IF i = 2
    THEN [err |-> FALSE, InputType |-> params[i]]
    ELSE extractLoop(params, i + 1)

extractMethods(m) == extractLoop(m.params, 1)

\* parseMethod: ok is false for Metadata alone; an extractMethods error is
\* logged and the method is returned all the same
parseMethod(m, meta) ==
    IF m.name = "Metadata"
    THEN [ok |-> FALSE, logs |-> 0, ID |-> m.name]
    ELSE [ok |-> TRUE, logs |-> IF extractMethods(m).err THEN 1 ELSE 0, ID |-> m.name]

\* BuildMethod with the operation appended to sdef.Operations before the
\* Metadata method is skipped and parseMethod is asked
BuildMethod_ListsEveryMethod(m, meta, acc) ==
    LET extract == extractMethods(m)
        op == [ID |-> m.name,
               Description |-> OperationDescription(meta, m.name),
               RequestBody |-> extract.InputType]
        parsed == parseMethod(m, meta)
        logs == acc.logs + (IF extract.err THEN 1 ELSE 0) + parsed.logs
    IN IF parsed.ok
       THEN [routeMap |-> (parsed.ID :> [method |-> m.name, inputType |-> extract.InputType])
                             @@ acc.routeMap,
             Operations |-> Append(acc.Operations, op),
             logs |-> logs]
       ELSE [acc EXCEPT !.Operations = Append(acc.Operations, op)]

\* the body of Build's loop over the methods of one service, for method m:
\* acc is [routeMap, Operations, logs]
BuildMethod(m, meta, acc) ==
    IF m.name = "Metadata"
    THEN acc
    ELSE LET extract == extractMethods(m)
             op == [ID |-> m.name,
                    Description |-> OperationDescription(meta, m.name),
                    RequestBody |-> extract.InputType]
             parsed == parseMethod(m, meta)
             logs == acc.logs + (IF extract.err THEN 1 ELSE 0) + parsed.logs
         IN IF parsed.ok
            THEN [routeMap |-> (parsed.ID :> [method |-> m.name, inputType |-> extract.InputType])
                                  @@ acc.routeMap,
                  Operations |-> Append(acc.Operations, op),
                  logs |-> logs]
            ELSE [acc EXCEPT !.logs = logs]

RECURSIVE BuildMethods(_, _, _, _)
BuildMethods(ms, i, meta, acc) ==
    IF i > Len(ms) THEN acc
    ELSE BuildMethods(ms, i + 1, meta, BuildMethod(ms[i], meta, acc))

EmptyRouteMap == [n \in {} |-> [method |-> "", inputType |-> NoType]]

\* the ID Build gives a service: Metadata().ID, or the name of the type
ServiceID(svc) ==
    IF HasMetadata(svc.type) THEN Metadata(svc.type).ID ELSE svc.type

NoBuildErr == [kind |-> "nil", what |-> ""]

\* the build of one service once its kind and its ID have been accepted
BuildAccepted(svc, h) ==
    LET meta == Metadata(svc.type)
        id == ServiceID(svc)
        sdef == IF HasMetadata(svc.type)
                THEN [ID |-> meta.ID, Name |-> meta.DisplayName,
                      Description |-> meta.Description]
                ELSE [ID |-> svc.type, Name |-> "", Description |-> ""]
        acc == BuildMethods(TypeMethods(svc.type), 1, meta,
                   [routeMap |-> EmptyRouteMap, Operations |-> <<>>, logs |-> h.logs])
    IN [h |-> [routes |-> (id :> acc.routeMap) @@ h.routes,
               Services |-> Append(h.Services,
                    [ID |-> sdef.ID, Name |-> sdef.Name,
                     Description |-> sdef.Description,
                     Operations |-> acc.Operations]),
               logs |-> acc.logs],
        err |-> NoBuildErr]

\* BuildService without the test of h.routes[sdef.ID]
BuildService_NoDuplicateCheck(svc, h) ==
    IF ~svc.ptr
    THEN [h |-> h, err |-> [kind |-> "notPointer", what |-> svc.type]]
    ELSE BuildAccepted(svc, h)

\* BuildService without the test of v.Kind()
BuildService_NoPointerCheck(svc, h) ==
    IF ServiceID(svc) \in DOMAIN h.routes
    THEN [h |-> h, err |-> [kind |-> "duplicate", what |-> ServiceID(svc)]]
    ELSE BuildAccepted(svc, h)

\* the body of Build's loop over r.services, for the object svc: h is
\* [routes, Services, logs], the result [h, err]
BuildService(svc, h) ==
    IF ~svc.ptr
    THEN [h |-> h, err |-> [kind |-> "notPointer", what |-> svc.type]]
    ELSE IF ServiceID(svc) \in DOMAIN h.routes
    THEN [h |-> h, err |-> [kind |-> "duplicate", what |-> ServiceID(svc)]]
    ELSE BuildAccepted(svc, h)

EmptyHandler == [routes |-> [n \in {} |-> EmptyRouteMap], Services |-> <<>>, logs |-> 0]

RECURSIVE BuildLoop(_, _, _)
BuildLoop(svcs, i, h) ==
    IF i > Len(svcs)
    THEN [h |-> h, err |-> NoBuildErr]
    ELSE LET r == BuildService(svcs[i], h)
         IN IF r.err # NoBuildErr THEN r ELSE BuildLoop(svcs, i + 1, r.h)

\* Registry.Build on the services svcs: [nil, routes, Services, err, logs]; a
\* failed Build returns a nil *Handler and the error
BuildResult(svcs) ==
    LET r == BuildLoop(svcs, 1, EmptyHandler)
    IN IF r.err # NoBuildErr
       THEN [nil |-> TRUE, routes |-> EmptyHandler.routes, Services |-> <<>>,
             err |-> r.err, logs |-> r.h.logs]
       ELSE [nil |-> FALSE, routes |-> r.h.routes, Services |-> r.h.Services,
             err |-> NoBuildErr, logs |-> r.h.logs]

\* no Build has returned yet
NotBuilt == [built |-> FALSE, of |-> <<>>, nil |-> TRUE,
             routes |-> EmptyHandler.routes, Services |-> <<>>, err |-> NoBuildErr]

\* no Call and no ServeHTTP yet
NoOut == [op |-> "none", req |-> <<>>, res |-> <<>>]

RegistryInit ==
    /\ services = <<>>
    /\ handler = NotBuilt
    /\ logged = 0
    /\ out = NoOut

\* Registry.Register(service)
Register(svc) ==
    /\ Len(services) < MaxServices
    /\ services' = Append(services, svc)
    /\ UNCHANGED <<handler, logged, out>>
    /\ UNCHANGED <<tunnelVars, tlsVars>>

\* Registry.Build(): handler is what it returned and the services it was
\* called on, logged the slog.Error records it wrote
Build ==
    /\ LET r == BuildResult(services)
       IN /\ handler' = [built |-> TRUE, of |-> services, nil |-> r.nil,
                         routes |-> r.routes, Services |-> r.Services, err |-> r.err]
          /\ logged' = r.logs
    /\ UNCHANGED <<services, out>>
    /\ UNCHANGED <<tunnelVars, tlsVars>>

RegistryNext ==
    \/ \E svc \in ServiceObjects : Register(svc)
    \/ Build

-----------------------------------------------------------------------------
(* Handler.Call and Handler.ServeHTTP.                                     *)

\* a value a method returns: a string, a secondOutput or an error (s = "" is
\* the nil error)
Value(k, str) == [kind |-> k, s |-> str]

\* what the methods of the registered types return on the decoded input in
\* (legacy.Fail returns a value and a non-nil error)
Invoke(t, name, in) ==
    CASE t = "example" -> << Value("string", "hello " \o in.Bar) >>
      [] t \in {"second", "pointerOutput", "alias"} ->
           << Value("secondOutput", "hello " \o in.Bar), Value("error", "") >>
      [] t = "legacy" /\ name = "Fail" ->
           << Value("string", "partial"), Value("error", "failed") >>
      [] t = "legacy" /\ name = "Ping" -> << Value("string", "pong") >>
      [] OTHER -> << Value("int", "0") >>

\* json.Marshal of a returned value
Marshal(v) ==
    CASE v.kind = "string" -> "\"" \o v.s \o "\""
      [] v.kind = "secondOutput" -> "{\"example\":\"" \o v.s \o "\"}"
      [] OTHER -> v.s

BarPrefix == "{\"bar\": \""
BarSuffix == "\"}"

\* json.Unmarshal(input, &valInt) where valInt holds a *fooInput: err is the
\* error text ("" for nil), nil whether valInt was set to nil (the JSON null),
\* Bar the decoded field
Unmarshal(input) ==
    IF input = "null"
    THEN [err |-> "", nil |-> TRUE, Bar |-> ""]
    ELSE IF input = "{}"
    THEN [err |-> "", nil |-> FALSE, Bar |-> ""]
    ELSE IF /\ Len(input) >= Len(BarPrefix) + Len(BarSuffix)
            /\ SubSeq(input, 1, Len(BarPrefix)) = BarPrefix
            /\ SubSeq(input, Len(input) - Len(BarSuffix) + 1, Len(input)) = BarSuffix
    THEN [err |-> "", nil |-> FALSE,
          Bar |-> SubSeq(input, Len(BarPrefix) + 1, Len(input) - Len(BarSuffix))]
    ELSE [err |-> "unexpected end of JSON input", nil |-> FALSE, Bar |-> ""]

\* the object whose method a route of service is bound to (methodValue)
BoundObject(h, service) ==
    CHOOSE svc \in {h.of[i] : i \in 1..Len(h.of)} : ServiceID(svc) = service

BoundMethod(h, service, operation) ==
    LET ms == TypeMethods(BoundObject(h, service).type)
    IN ms[CHOOSE k \in 1..Len(ms) : ms[k].name = operation]

\* what a Call gives: the bytes and the error text it returns ("" for nil),
\* the methods it invoked, and whether it panicked instead of returning
CallReturn(b, e, inv, p) == [bytes |-> b, err |-> e, invoked |-> inv, panic |-> p]

\* Call with the operation's name left out of the error for an unknown operation
OperationNotFound_ServiceOnly(operation, service) ==
    "operation not found for service " \o service

OperationNotFound(operation, service) ==
    "operation " \o operation \o " not found for service " \o service

\* Handler.Call(ctx, service, operation, input) on the Handler h
Call(h, service, operation, input) ==
    IF service \notin DOMAIN h.routes
    THEN CallReturn("", "service " \o service \o " not found", <<>>, FALSE)
    ELSE IF operation \notin DOMAIN h.routes[service]
    THEN CallReturn("", OperationNotFound(operation, service), <<>>, FALSE)
    ELSE LET function == h.routes[service][operation]
             m == BoundMethod(h, service, operation)
             dec == IF function.inputType # NoType
                    THEN Unmarshal(input)
                    ELSE [err |-> "", nil |-> FALSE, Bar |-> ""]
             args == IF function.inputType # NoType
                     THEN <<"ctx", function.inputType>>
                     ELSE <<"ctx">>
         IN IF dec.err # ""
            THEN CallReturn("", "error unmarshalling input: " \o dec.err, <<>>, FALSE)
            ELSE IF dec.nil
            \* reflect.ValueOf(nil).Elem()
            THEN CallReturn("", "", <<>>, TRUE)
            ELSE IF args # m.params
            \* reflect: Call with too few input arguments
            THEN CallReturn("", "", <<>>, TRUE)
            ELSE LET output == Invoke(BoundObject(h, service).type, m.name, dec)
                 IN CallReturn(Marshal(output[1]), "", <<m>>, FALSE)

\* strings.TrimPrefix
TrimPrefix(str, prefix) ==
    IF Len(str) >= Len(prefix) /\ SubSeq(str, 1, Len(prefix)) = prefix
    THEN SubSeq(str, Len(prefix) + 1, Len(str))
    ELSE str

\* strings.Split(str, sep) for a separator of one character: the parts of str
\* from start on, the scan being at i
RECURSIVE SplitLoop(_, _, _, _)
SplitLoop(str, sep, i, start) ==
    IF i > Len(str)
    THEN << SubSeq(str, start, Len(str)) >>
    ELSE IF SubSeq(str, i, i) = sep
    THEN << SubSeq(str, start, i - 1) >> \o SplitLoop(str, sep, i + 1, i + 1)
    ELSE SplitLoop(str, sep, i + 1, start)

Split(str, sep) == SplitLoop(str, sep, 1, 1)

StatusOK == 200
StatusBadRequest == 400
StatusNotFound == 404
StatusMethodNotAllowed == 405

\* what ServeHTTP wrote: the status (200 when WriteHeader was not called), the
\* body, the methods invoked, and whether it panicked before writing
Response(st, b, inv, p) == [status |-> st, body |-> b, invoked |-> inv, panic |-> p]

DefinitionsPath == "/.lightwave/operations"

\* json.NewEncoder(w).Encode(h.defs)
DefinitionsBody(h) == [Services |-> h.Services]

\* Handler.ServeHTTP(w, r) on the Handler h; r is [Method, Path, Body,
\* readErr], readErr the failure of io.ReadAll(r.Body)
ServeHTTP(h, r) ==
    IF r.Method = "GET" /\ r.Path = DefinitionsPath
    THEN Response(StatusOK, DefinitionsBody(h), <<>>, FALSE)
    ELSE IF r.Method # "POST"
    THEN Response(StatusMethodNotAllowed, "Method Not Allowed", <<>>, FALSE)
    ELSE LET parts == Split(TrimPrefix(r.Path, "/"), "/")
         IN IF Len(parts) # 2
            THEN Response(StatusNotFound, "invalid path: " \o r.Path, <<>>, FALSE)
            ELSE IF r.readErr
            THEN Response(StatusBadRequest, "unexpected EOF", <<>>, FALSE)
            ELSE LET c == Call(h, parts[1], parts[2], r.Body)
                 IN IF c.panic
                    THEN Response(0, "", c.invoked, TRUE)
                    ELSE IF c.err # ""
                    THEN Response(StatusBadRequest, c.err, c.invoked, FALSE)
                    ELSE Response(StatusOK, c.bytes, c.invoked, FALSE)

\* the inputs the Handler is called with
RawInputs == {"{\"bar\": \"testing\"}", "null", "{", ""}
CallServices == {"example", "second", "pointerOutput", "legacy", "nosuch"}
CallOperations == {"Foo", "Bar", "Fail", "Sum", "Nope"}
Paths == {DefinitionsPath, "/example/Foo", "/second/Foo", "/pointerOutput/Foo",
          "/legacy/Sum", "/legacy/Fail", "/example/Nope", "/nosuch/Foo",
          "/example", "/example/Foo/x", "/"}
Requests ==
    [Method : {"POST"}, Path : Paths, Body : RawInputs, readErr : {FALSE}]
       \cup [Method : {"POST"}, Path : Paths, Body : {""}, readErr : {TRUE}]
       \cup [Method : {"GET", "DELETE"}, Path : Paths, Body : {""}, readErr : {FALSE}]

\* a call of h.Call; on a nil *Handler there is nothing to call
DoCall(service, operation, input) ==
    /\ handler.built /\ ~handler.nil
    /\ out' = [op |-> "Call", req |-> <<service, operation, input>>,
               res |-> Call(handler, service, operation, input)]
    /\ UNCHANGED <<services, handler, logged>>
    /\ UNCHANGED <<tunnelVars, tlsVars>>

\* a request served by h.ServeHTTP
DoServeHTTP(r) ==
    /\ handler.built /\ ~handler.nil
    /\ out' = [op |-> "ServeHTTP", req |-> r, res |-> ServeHTTP(handler, r)]
    /\ UNCHANGED <<services, handler, logged>>
    /\ UNCHANGED <<tunnelVars, tlsVars>>

DispatchNext ==
    \/ \E service \in CallServices, operation \in CallOperations, input \in RawInputs :
          DoCall(service, operation, input)
    \/ \E r \in Requests : DoServeHTTP(r)

\* the Handlers Build returns on up to MaxServices registered objects
BuiltInit ==
    /\ \E n \in 0..MaxServices : \E svcs \in [1..n -> ServiceObjects] :
          LET r == BuildResult(svcs)
          IN /\ services = svcs
             /\ handler = [built |-> TRUE, of |-> svcs, nil |-> r.nil,
                           routes |-> r.routes, Services |-> r.Services, err |-> r.err]
             /\ logged = r.logs
    /\ out = NoOut

-----------------------------------------------------------------------------
(* Tunnel.getTLSConfig, over the Tunnels of one process.                   *)

Tunnels == {"t1", "t2"}

\* the addresses DialAndServe is called with
Addrs == {"a.example:443", "b.example:443", "10.0.0.1:443",
          "https://a.example:443", "https://b.example:443"}

Letters == {"a", "b", "c", "d", "e", "f", "g", "h", "i", "j", "k", "l", "m",
            "n", "o", "p", "q", "r", "s", "t", "u", "v", "w", "x", "y", "z"}
SchemeMarks == {"0", "1", "2", "3", "4", "5", "6", "7", "8", "9", "+", "-", "."}

\* strings.Index for a sub of one character, from i on: 0 when there is none
RECURSIVE IndexFrom(_, _, _)
IndexFrom(str, sub, i) ==
    IF i > Len(str) THEN 0
    ELSE IF SubSeq(str, i, i) = sub THEN i
    ELSE IndexFrom(str, sub, i + 1)

\* strings.LastIndex for a sub of one character, from i down: 0 when there is none
RECURSIVE LastIndexFrom(_, _, _)
LastIndexFrom(str, sub, i) ==
    IF i < 1 THEN 0
    ELSE IF SubSeq(str, i, i) = sub THEN i
    ELSE LastIndexFrom(str, sub, i - 1)

HasPrefix(str, prefix) ==
    Len(str) >= Len(prefix) /\ SubSeq(str, 1, Len(prefix)) = prefix

\* net/url getScheme: [err, scheme, rest], the scan being at i
RECURSIVE getScheme(_, _)
getScheme(rawURL, i) ==
    IF i > Len(rawURL)
    THEN [err |-> "", scheme |-> "", rest |-> rawURL]
    ELSE LET c == SubSeq(rawURL, i, i)
         IN IF c \in Letters
            THEN getScheme(rawURL, i + 1)
            ELSE IF c \in SchemeMarks
            THEN IF i = 1
                 THEN [err |-> "", scheme |-> "", rest |-> rawURL]
                 ELSE getScheme(rawURL, i + 1)
            ELSE IF c = ":"
            THEN IF i = 1
                 THEN [err |-> "missing protocol scheme", scheme |-> "", rest |-> ""]
                 ELSE [err |-> "", scheme |-> SubSeq(rawURL, 1, i - 1),
                       rest |-> SubSeq(rawURL, i + 1, Len(rawURL))]
            ELSE [err |-> "", scheme |-> "", rest |-> rawURL]

\* URL.Hostname of the authority host: the port is stripped
stripPort(host) ==
    LET colon == LastIndexFrom(host, ":", Len(host))
    IN IF colon = 0 THEN host ELSE SubSeq(host, 1, colon - 1)

\* url.Parse(addr) and url.Hostname(): [err, Hostname].  A URL with a scheme
\* and no leading slash is opaque and has no host; without a scheme, a colon
\* in the first path segment is an error.
ParseHostname(addr) ==
    LET g == getScheme(addr, 1)
        slash == IndexFrom(g.rest, "/", 1)
        segment == IF slash = 0 THEN g.rest ELSE SubSeq(g.rest, 1, slash - 1)
    IN IF g.err # ""
       THEN [err |-> g.err, Hostname |-> ""]
       ELSE IF ~HasPrefix(g.rest, "/")
       THEN IF g.scheme # ""
            THEN [err |-> "", Hostname |-> ""]
            ELSE IF IndexFrom(segment, ":", 1) # 0
            THEN [err |-> "first path segment in URL cannot contain colon", Hostname |-> ""]
            ELSE [err |-> "", Hostname |-> ""]
       ELSE IF HasPrefix(g.rest, "//") /\ (g.scheme # "" \/ ~HasPrefix(g.rest, "///"))
       THEN LET after == SubSeq(g.rest, 3, Len(g.rest))
                end == IndexFrom(after, "/", 1)
                authority == IF end = 0 THEN after ELSE SubSeq(after, 1, end - 1)
                at == LastIndexFrom(authority, "@", Len(authority))
            IN [err |-> "", Hostname |-> stripPort(SubSeq(authority, at + 1, Len(authority)))]
       ELSE [err |-> "", Hostname |-> ""]

\* a *tls.Config: nil, or its ServerName and whether the user has set it
NilConfig == [nil |-> TRUE, ServerName |-> "", userSet |-> FALSE]
Config(name, user) == [nil |-> FALSE, ServerName |-> name, userSet |-> user]

\* getTLSConfig on the configuration tlsConf it has chosen: [err, ServerName,
\* conf], conf being tlsConf as the call leaves it
getTLSConfig(tlsConf, addr) ==
    IF tlsConf.ServerName = ""
    THEN LET u == ParseHostname(addr)
         IN IF u.err # ""
            THEN [err |-> u.err, ServerName |-> "", conf |-> tlsConf]
            ELSE [err |-> "", ServerName |-> u.Hostname,
                  conf |-> [tlsConf EXCEPT !.ServerName = u.Hostname]]
    ELSE [err |-> "", ServerName |-> tlsConf.ServerName, conf |-> tlsConf]

NoTLSCall == [made |-> FALSE, tunnel |-> "", addr |-> "", err |-> "",
              ServerName |-> "", userSet |-> FALSE]

\* one Tunnel without a TLSConfig of its own, as in the call Spec follows
TLSInit ==
    /\ DefaultTLSConfig = Config("", FALSE)
    /\ TLSConfig = [t \in Tunnels |-> NilConfig]
    /\ tlsCall = NoTLSCall

\* every Tunnel has no TLSConfig, one without a ServerName, or one whose
\* ServerName the user has set
TunnelsInit ==
    /\ DefaultTLSConfig = Config("", FALSE)
    /\ TLSConfig \in [Tunnels -> {NilConfig, Config("", FALSE), Config("relay.example", TRUE)}]
    /\ tlsCall = NoTLSCall

\* the Tunnel t is asked to DialAndServe(ctx, addr): dialAndServe calls
\* t.getTLSConfig(addr)
GetTLSConfig(t, addr) ==
    /\ LET own == ~TLSConfig[t].nil
           tlsConf == IF own THEN TLSConfig[t] ELSE DefaultTLSConfig
           r == getTLSConfig(tlsConf, addr)
       IN /\ tlsCall' = [made |-> TRUE, tunnel |-> t, addr |-> addr, err |-> r.err,
                         ServerName |-> r.ServerName, userSet |-> tlsConf.userSet]
          /\ TLSConfig' = IF own THEN [TLSConfig EXCEPT ![t] = r.conf] ELSE TLSConfig
          /\ DefaultTLSConfig' = IF own THEN DefaultTLSConfig ELSE r.conf
    /\ UNCHANGED <<tunnelVars, registryVars>>

TLSNext == \E t \in Tunnels, addr \in Addrs : GetTLSConfig(t, addr)

-----------------------------------------------------------------------------
(* The specifications: of one DialAndServe call, and of one Registry.      *)

Init == TunnelInit /\ RegistryInit /\ TLSInit

Next == TunnelNext

Spec == Init /\ [][Next]_vars

RegistrySpec == Init /\ [][RegistryNext]_vars

\* the calls of getTLSConfig that the DialAndServe calls of a process make
TLSSpecInit == TunnelInit /\ RegistryInit /\ TunnelsInit

TLSSpec == TLSSpecInit /\ [][TLSNext]_vars

\* a Handler after Build, and the calls made on it
DispatchInit == TunnelInit /\ BuiltInit /\ TLSInit

DispatchSpec == DispatchInit /\ [][DispatchNext]_vars

-----------------------------------------------------------------------------
(* Properties of the tunnel.                                               *)

Returned == pc = "done"

\* every attempt so far has failed with one error that context.Canceled does
\* not match, and the context is still active
AlwaysSameFailure == obs.uniform /\ lastErr # NoErr /\ ~IsCanceled(lastErr)

\* C1: if every attempt fails with the same non-cancellation error E and the
\* context is never cancelled, DialAndServe makes exactly Steps (5) attempts
\* and returns E; it never makes a sixth.
C1_BackoffTermination ==
    /\ nAttempts <= Steps
    /\ (Returned /\ ret.ctx = "active" /\ ret.via # "success" /\ AlwaysSameFailure)
          => (nAttempts = Steps /\ ret.err = lastErr /\ ret.err # ErrWaitTimeout)
    /\ nAttempts = Steps => pc \notin {"wait", "loop"}

C1_Witness ==
    /\ Returned /\ ret.ctx = "active" /\ ret.via = "exhausted"
    /\ AlwaysSameFailure /\ nAttempts = Steps /\ ret.err = Err("dial", "E1")

\* C2: once the context is cancelled while DialAndServe waits between two
\* attempts (or has just left the wait), no further attempt is started and what
\* DialAndServe returns next is context.Canceled, not the last attempt's error.
C2_CancelDuringWait ==
    [][(ctx = "canceled" /\ pc \in {"wait", "loop"})
         => /\ nAttempts' = nAttempts
            /\ pc' \in {"wait", "loop", "done"}
            /\ (pc' = "done" => ret'.err = CtxErr("canceled") /\ IsCanceled(ret'.err))]_vars

C2_Witness ==
    /\ Returned /\ ret.via = "ctxWait" /\ ret.ctx = "canceled"
    /\ lastErr # NoErr /\ ~IsCanceled(lastErr) /\ ret.err # lastErr

\* C3 as stated: a return on an exhausted budget gives the last observed error
\* that is not a cancellation, never a generic one and never the error of an
\* attempt that failed because of cancellation.
C3_Original ==
    (Returned /\ ret.via = "exhausted")
       => /\ ret.err = obs.lastNonCancel
          /\ ~IsCanceled(ret.err)
          /\ ret.err # ErrWaitTimeout

\* C4 as stated: after an attempt has failed with an error matching
\* context.Canceled no further attempt is started, and DialAndServe returns a
\* cancellation error.
C4_Original ==
    IsCanceled(lastErr)
       => /\ pc \in {"wait", "loop", "done"}
          /\ (Returned => IsCanceled(ret.err))

\* C5: in one attempt OnConnectionReady is called at most once, only after a
\* response with code OK has been decoded, and before the connection is handed
\* to the serving loop, so before any request is dispatched on it.
C5_CallbackOrder ==
    /\ att.cbCalls <= 1
    /\ att.cbCalls = 1 => (att.decoded /\ att.code = CodeOK /\ att.encoded)
    /\ pc = "serve" => att.serving
    /\ att.serving => /\ att.decoded /\ att.code = CodeOK /\ att.encoded
                      /\ (hasCallback => att.cbCalls = 1)
    /\ att.dispatched > 0 => att.serving
    /\ pc = "ready" => (att.cbCalls = 0 /\ ~att.serving /\ att.dispatched = 0)

C5_Witness ==
    hasCallback /\ att.cbCalls = 1 /\ att.dispatched = 1 /\ pc = "serve"

\* C6: a decoded response whose code is not OK ends the attempt with an error
\* that names the code; OnConnectionReady is not called and the serving loop is
\* not started on that connection.
C6_NonOKCode ==
    (att.decoded /\ att.code # CodeOK)
       => /\ pc \in {"wait", "loop", "done"}
          /\ lastErr.kind = "code"
          /\ (att.code = CodeUnauthorized => lastErr.cause = "CodeUnauthorized")
          /\ (att.code = CodeUnknown => lastErr.cause = "ResponseCode(5)")
          /\ att.cbCalls = 0 /\ ~att.serving /\ att.dispatched = 0

C6_Witness ==
    /\ hasCallback /\ att.decoded /\ att.code = CodeUnknown
    /\ lastErr = Err("code", "ResponseCode(5)") /\ Conn = "open"

\* C7 as stated (its second half): when DialAndServe returns after the context
\* was cancelled, it returns a cancellation error.
C7_Original ==
    (Returned /\ ret.ctx = "canceled") => IsCanceled(ret.err)

-----------------------------------------------------------------------------
(* Properties of the registry.                                             *)

\* two of the registered services resolve to one Service ID
HasDuplicateIDs(svcs) ==
    \E i, j \in 1..Len(svcs) : i < j /\ ServiceID(svcs[i]) = ServiceID(svcs[j])

\* the IDs of the operations the Definitions document lists for its i-th service
DefinedOperations(i) ==
    {handler.Services[i].Operations[k].ID : k \in 1..Len(handler.Services[i].Operations)}

\* C8: when two registered services resolve to the same Service ID, Build
\* returns an error and a nil Handler; in every Handler Build does return the
\* Service IDs are pairwise distinct.
C8_DuplicateServiceID ==
    handler.built =>
       /\ HasDuplicateIDs(handler.of) => (handler.nil /\ handler.err # NoBuildErr)
       /\ ~handler.nil =>
            /\ Len(handler.Services) = Len(handler.of)
            /\ \A i, j \in 1..Len(handler.Services) :
                  i # j => handler.Services[i].ID # handler.Services[j].ID
            /\ DOMAIN handler.routes =
                  {handler.Services[i].ID : i \in 1..Len(handler.Services)}
            /\ Cardinality(DOMAIN handler.routes) = Len(handler.of)

C8_Witness ==
    /\ handler.built /\ handler.nil
    /\ handler.of = <<[type |-> "second", ptr |-> TRUE], [type |-> "alias", ptr |-> TRUE]>>
    /\ handler.err = [kind |-> "duplicate", what |-> "second"]

\* C9: when a service object was registered as a bare value, Build returns an
\* error and a nil Handler whatever else is registered; an object registered
\* by pointer, alone or with others of other IDs, builds.
C9_BareValue ==
    handler.built =>
       /\ (\E i \in 1..Len(handler.of) : ~handler.of[i].ptr)
             => (handler.nil /\ handler.err # NoBuildErr)
       /\ \A t \in Types :
             handler.of = <<[type |-> t, ptr |-> TRUE]>>
                => (~handler.nil /\ handler.err = NoBuildErr)
       /\ ((\A i \in 1..Len(handler.of) : handler.of[i].ptr) /\ ~HasDuplicateIDs(handler.of))
             => (~handler.nil /\ handler.err = NoBuildErr)

C9_Witness ==
    /\ handler.built /\ handler.nil
    /\ handler.of = <<[type |-> "example", ptr |-> TRUE],
                      [type |-> "pointerOutput", ptr |-> FALSE]>>
    /\ handler.err = [kind |-> "notPointer", what |-> "pointerOutput"]

\* a method, other than Metadata, whose first parameter is no context.Context
LacksContext(m) == m.name # "Metadata" /\ Len(m.params) >= 1 /\ m.params[1] # "ctx"

\* C10 as stated: for every method of a registered service whose first
\* parameter is not a context, Build logs an error and leaves the operation out
\* of the routing table and of the Definitions document, while the Service
\* entry and its other operations remain.
C10_Original ==
    (handler.built /\ ~handler.nil) =>
       \A i \in 1..Len(handler.of) :
          LET ms == TypeMethods(handler.of[i].type)
              id == ServiceID(handler.of[i])
          IN \A k \in 1..Len(ms) :
                IF LacksContext(ms[k])
                THEN /\ logged >= 1
                     /\ id \in DOMAIN handler.routes
                     /\ ms[k].name \notin DOMAIN handler.routes[id]
                     /\ ms[k].name \notin DefinedOperations(i)
                ELSE ms[k].name # "Metadata"
                        => /\ ms[k].name \in DOMAIN handler.routes[id]
                           /\ ms[k].name \in DefinedOperations(i)

\* some service Build was called on has a method without a leading context
BuiltWithoutContext ==
    /\ handler.built
    /\ \E i \in 1..Len(handler.of) :
          \E k \in 1..Len(TypeMethods(handler.of[i].type)) :
             LacksContext(TypeMethods(handler.of[i].type)[k])

\* C11 as stated: a method of a registered service without a leading context
\* is a fatal build error: Build returns a non-nil error and no Handler.
C11_Original ==
    BuiltWithoutContext => (handler.nil /\ handler.err # NoBuildErr)

-----------------------------------------------------------------------------
(* Properties of the Handler.                                              *)

\* the (service ID, operation ID) pairs of the Definitions document defs
DefinedPairs(defs) ==
    UNION { { <<defs[i].ID, defs[i].Operations[k].ID>> : k \in 1..Len(defs[i].Operations) }
            : i \in 1..Len(defs) }

\* the keys of the routing table
RoutedPairs ==
    UNION { { <<s, o>> : o \in DOMAIN handler.routes[s] } : s \in DOMAIN handler.routes }

\* C12: the (service, operation) pairs that the Definitions document of a
\* Handler lists (ServiceDefinitions, GET /.lightwave/operations) are the keys
\* of its routing table, each listed once, and stay so after every Call and
\* ServeHTTP.
C12_DefinitionsMatchRoutes ==
    (handler.built /\ ~handler.nil) =>
       /\ DefinedPairs(handler.Services) = RoutedPairs
       /\ { handler.Services[i].ID : i \in 1..Len(handler.Services) } = DOMAIN handler.routes
       /\ Len(handler.Services) = Cardinality(DOMAIN handler.routes)
       /\ \A i \in 1..Len(handler.Services) :
             Len(handler.Services[i].Operations)
                = Cardinality(DOMAIN handler.routes[handler.Services[i].ID])
       /\ (out.op = "ServeHTTP" /\ out.req.Method = "GET" /\ out.req.Path = DefinitionsPath)
             => (out.res.status = StatusOK /\ DefinedPairs(out.res.body.Services) = RoutedPairs)

C12_Witness ==
    /\ handler.of = <<[type |-> "example", ptr |-> TRUE], [type |-> "legacy", ptr |-> TRUE]>>
    /\ out.op = "ServeHTTP" /\ out.req.Method = "GET" /\ out.req.Path = DefinitionsPath
    /\ DefinedPairs(out.res.body.Services)
          = { <<"example", "Bar">>, <<"example", "Foo">>,
              <<"legacy", "Fail">>, <<"legacy", "Ping">>, <<"legacy", "Sum">> }

\* strings.Contains
Contains(str, sub) ==
    \E i \in 1..(Len(str) - Len(sub) + 1) : SubSeq(str, i, i + Len(sub) - 1) = sub

\* C13: Call on a service ID that the routing table lacks returns the error
\* 'service <id> not found'; Call on a known service and an operation it lacks
\* returns an error that contains the operation's and the service's names; in
\* both cases no method is invoked and no bytes are returned.
C13_UnknownTarget ==
    out.op = "Call" =>
       LET service == out.req[1]
           operation == out.req[2]
       IN /\ service \notin DOMAIN handler.routes
               => /\ out.res.err = "service " \o service \o " not found"
                  /\ out.res.bytes = "" /\ out.res.invoked = <<>> /\ ~out.res.panic
          /\ (service \in DOMAIN handler.routes /\ operation \notin DOMAIN handler.routes[service])
               => /\ Contains(out.res.err, operation) /\ Contains(out.res.err, service)
                  /\ Contains(out.res.err, "not found")
                  /\ out.res.bytes = "" /\ out.res.invoked = <<>> /\ ~out.res.panic

C13_Witness ==
    /\ out.op = "Call" /\ out.req[1] = "example" /\ out.req[2] = "Nope"
    /\ "example" \in DOMAIN handler.routes
    /\ out.res.err = "operation Nope not found for service example"
    /\ out.res.bytes = ""

\* the last Call named a service and an operation of the routing table
CalledRoute ==
    /\ out.op = "Call"
    /\ out.req[1] \in DOMAIN handler.routes
    /\ out.req[2] \in DOMAIN handler.routes[out.req[1]]

\* the input of the last Call decodes: json.Unmarshal returns no error, or the
\* operation takes no input
InputDecodes ==
    \/ handler.routes[out.req[1]][out.req[2]].inputType = NoType
    \/ Unmarshal(out.req[3]).err = ""

\* C14 as stated, for the methods that take a leading context: when the
\* service and the operation exist and the input decodes, Call returns the
\* JSON serialization of the method's first return value and a nil error,
\* whatever the receiver kind and whatever trailing error the method returns.
C14_Original ==
    (/\ CalledRoute
     /\ InputDecodes
     /\ ~LacksContext(BoundMethod(handler, out.req[1], out.req[2])))
       => LET m == BoundMethod(handler, out.req[1], out.req[2])
              results == Invoke(BoundObject(handler, out.req[1]).type, m.name,
                                Unmarshal(out.req[3]))
          IN /\ ~out.res.panic
             /\ out.res.err = ""
             /\ out.res.invoked = <<m>>
             /\ out.res.bytes = Marshal(results[1])

\* the request of the last ServeHTTP is a POST of two path segments that names
\* a method without a leading context
RoutesToContextless(r) ==
    LET parts == Split(TrimPrefix(r.Path, "/"), "/")
    IN /\ Len(parts) = 2
       /\ parts[1] \in DOMAIN handler.routes
       /\ parts[2] \in DOMAIN handler.routes[parts[1]]
       /\ LacksContext(BoundMethod(handler, parts[1], parts[2]))

\* C15 as stated, for the requests that name no method without a leading
\* context: GET /.lightwave/operations answers 200 with the Definitions
\* document; any other method but POST answers 405; a POST whose path has not
\* exactly two segments answers 404; a POST /<service>/<operation> answers 200
\* with the result when Call succeeds and 400 with the error text when it
\* fails.
C15_Original ==
    (out.op = "ServeHTTP" /\ ~RoutesToContextless(out.req)) =>
       LET r == out.req
           parts == Split(TrimPrefix(r.Path, "/"), "/")
       IN /\ ~out.res.panic
          /\ IF r.Method = "GET" /\ r.Path = DefinitionsPath
             THEN out.res.status = StatusOK /\ out.res.body = DefinitionsBody(handler)
             ELSE IF r.Method # "POST"
             THEN out.res.status = StatusMethodNotAllowed
             ELSE IF Len(parts) # 2
             THEN out.res.status = StatusNotFound
             ELSE IF r.readErr
             THEN out.res.status = StatusBadRequest
             ELSE LET c == Call(handler, parts[1], parts[2], r.Body)
                  IN IF c.err # ""
                     THEN out.res.status = StatusBadRequest /\ out.res.body = c.err
                     ELSE out.res.status = StatusOK /\ out.res.body = c.bytes

-----------------------------------------------------------------------------
(* Properties of the registration handshake and of the connections.        *)

\* an attempt has just returned to the backoff loop
AttemptEnded == pc = "wait"

\* what C16 and its amended form share: Authenticate is called at most once
\* in an attempt, on the request made for that attempt, before anything is
\* encoded; an attempt whose Authenticate fails encodes and decodes nothing
\* and returns to the backoff loop.
AuthenticateBeforeEncode ==
    /\ att.authCalls <= 1
    /\ pc = "auth" => (att.authCalls = 0 /\ ~att.encoded /\ att.req = nAttempts)
    /\ att.authCalls = 1 => (att.authReq = nAttempts /\ att.streams = 1)
    /\ att.encoded => (att.authCalls = 1 /\ ~att.authErr)
    /\ att.authErr => (/\ ~att.encoded /\ ~att.decoded /\ ~att.serving
                       /\ pc \in {"wait", "loop", "done"})

\* C16 as stated: Authenticate is called exactly once in every dial attempt.
C16_Original ==
    /\ AuthenticateBeforeEncode
    /\ AttemptEnded => att.authCalls = 1

\* C16: Authenticate is called exactly once in every attempt that dials and
\* opens its registration stream, and not at all in an attempt that fails
\* before; it is called before the request is encoded, on the request made
\* for that attempt, and when it fails the attempt is aborted with nothing
\* encoded.
C16_AuthenticateOnce ==
    /\ AuthenticateBeforeEncode
    /\ AttemptEnded => att.authCalls = att.streams
    /\ pc \in {"encode", "decode", "ready", "serve"} => att.authCalls = 1
    /\ pc \in {"dial", "openStream"} => att.authCalls = 0

C16_Witness ==
    /\ AttemptEnded /\ nAttempts = 2
    /\ att.authCalls = 1 /\ att.authErr /\ att.authReq = 2 /\ ~att.encoded
    /\ lastErr = Err("auth", "E1")

\* C18 as stated: the encoder is closed before the response is decoded.
C18_Original ==
    pc = "decode" => (att.encoded /\ att.encClosed)

\* C18: in every attempt the request is encoded and then the response is
\* decoded, on the one stream the attempt opened; the encoder is not closed
\* between the two but when register returns, after the decode.
C18_EncodeThenDecode ==
    /\ att.streams <= 1
    /\ pc = "decode" => (att.encoded /\ ~att.decoded /\ ~att.encClosed /\ att.streams = 1)
    /\ att.decoded => (att.encoded /\ att.streams = 1)
    /\ (att.decoded /\ pc \in {"serve", "wait", "loop", "done"}) => att.encClosed

C18_Witness ==
    /\ pc = "serve" /\ att.encoded /\ att.decoded /\ att.encClosed
    /\ att.code = CodeOK /\ att.streams = 1

\* C19 as stated: DialAndServe returns a nil error only when an attempt has
\* dialled, registered with CodeOK and had its serving loop end cleanly.
C19_Original ==
    (Returned /\ ret.err = NoErr)
       => /\ ret.via = "success"
          /\ att.decoded /\ att.code = CodeOK /\ att.serving

\* the connections that are open
OpenConns == { i \in Attempts : conn[i] = "open" }

\* C20 as stated: when an attempt starts dialling no connection of an earlier
\* attempt is open, and at most one connection is open at any time.
C20_Original ==
    /\ pc = "dial" => OpenConns = {}
    /\ Cardinality(OpenConns) <= 1

-----------------------------------------------------------------------------
(* Properties of the TLS configuration.                                    *)

\* quic.DialAddr resolves addr as host:port
Dialable(addr) ==
    /\ IndexFrom(addr, ":", 1) # 0
    /\ IndexFrom(addr, ":", 1) = LastIndexFrom(addr, ":", Len(addr))
    /\ IndexFrom(addr, "/", 1) = 0

\* the host of a host:port address
HostComponent(addr) == SubSeq(addr, 1, LastIndexFrom(addr, ":", Len(addr)) - 1)

\* C17 as stated: in every call made while the user has set no TLS server
\* name, the server name the address is dialled with is the host of that
\* call's address (an empty ServerName leaves the name to quic.DialAddr, which
\* takes it from the address it dials).
C17_Original ==
    (/\ tlsCall.made /\ ~tlsCall.userSet
     /\ tlsCall.err = "" /\ Dialable(tlsCall.addr))
       => tlsCall.ServerName \in {"", HostComponent(tlsCall.addr)}

-----------------------------------------------------------------------------
(* Properties of the attempt budget.                                       *)

\* an attempt is in progress
InAttempt == pc \in {"dial", "openStream", "auth", "encode", "decode", "ready", "serve"}

\* C21: one DialAndServe call makes at most Steps (5) attempts: every attempt,
\* one that registered and served before its serving loop failed included,
\* takes one step of the budget and none gives a step back, so the budget left
\* is Steps less the attempts that have failed, and when the fifth attempt has
\* failed DialAndServe returns.
C21_BudgetNeverReset ==
    /\ nAttempts <= Steps
    /\ steps >= 1
    /\ InAttempt => steps = Steps - nAttempts + 1
    /\ pc \in {"wait", "loop"} => (steps = Steps - nAttempts /\ nAttempts < Steps)
    /\ (Returned /\ ret.via = "exhausted") => (nAttempts = Steps /\ steps = 1)

\* the fourth attempt registered, served a request and failed: one step is left
C21_Witness ==
    /\ pc = "wait" /\ nAttempts = Steps - 1 /\ steps = 1
    /\ att.serving /\ att.dispatched >= 1 /\ att.code = CodeOK
    /\ lastErr = Err("serve", "E1")
====
